---- MODULE Spec2Model ----
(***************************************************************************)
(* Model of the two schedulers of the repository.                          *)
(*                                                                         *)
(*   src/main.py     MyGreedyScheduler.run: best-fit time scheduler over   *)
(*                   Task / Node objects (variables tasks, nodes, idx).     *)
(*   src/napsack.py  capacity-proportional allocator ("Policy B"): the      *)
(*                   module-level while loop over remaining_tasks and the   *)
(*                   historical runtime update (variables tasks_B, nodes_B, *)
(*                   schedule, node_usage, remaining_tasks, unscheduled,    *)
(*                   node_historical_runtime).                              *)
(*   knapsack selector: not among the source files; modelled from section   *)
(*                   4.1 of the specification (variables items, capacity,   *)
(*                   selected).                                             *)
(*                                                                         *)
(* Both files name their inputs `tasks` and `nodes`; the allocator's are    *)
(* called tasks_B and nodes_B here.  A behaviour runs one of the programs   *)
(* (variable prog); the other programs' variables stay empty.               *)
(*                                                                         *)
(* Times of main.py are floats tokens / speed.  The model keeps them as     *)
(* exact integers in units of 1/TimeScale second; every speed of the model  *)
(* divides TimeScale, and the speeds are powers of two, so that the float   *)
(* arithmetic of the code is exact on the modelled inputs as well.          *)
(***************************************************************************)
EXTENDS Integers, Sequences, FiniteSets

VARIABLES
    prog,                     \* "bestfit" (main.py) or "policyB" (napsack.py)
    pc,                       \* position of the running program
    tasks,                    \* main.py: self.tasks, the caller's list of Task
    nodes,                    \* main.py: self.nodes, list of Node
    tasks0,                   \* main.py: the caller's list as it was at construction
    nodes0,                   \* main.py: the caller's nodes as they were at construction
    idx,                      \* main.py: position of `for task in self.tasks`
    tasks_B,                  \* napsack.py: tasks, list of (task_id, cost, value)
    nodes_B,                  \* napsack.py: nodes, dict in insertion order
    node_historical_runtime,  \* napsack.py: the ledger
    schedule,                 \* napsack.py: schedule[node], list of tasks
    node_usage,               \* napsack.py: node_usage[node]
    remaining_tasks,          \* napsack.py: the pool
    unscheduled,              \* napsack.py: unscheduled (set after the loop)
    round,                    \* napsack.py: number of the current round
    ledger0,                  \* napsack.py: the ledger at the start of the round
    items,                    \* knapsack selector: the items, list of (id, cost, value)
    capacity,                 \* knapsack selector: the capacity
    selected                  \* knapsack selector: the subset returned

vars == <<prog, pc, tasks, nodes, tasks0, nodes0, idx, tasks_B, nodes_B,
          node_historical_runtime, schedule, node_usage, remaining_tasks,
          unscheduled, round, ledger0, items, capacity, selected>>

ksVars == <<items, capacity, selected>>
bfVars == <<tasks, nodes, tasks0, nodes0, idx>>
pbVars == <<tasks_B, nodes_B, node_historical_runtime, schedule, node_usage,
            remaining_tasks, unscheduled, round, ledger0>>

----------------------------------------------------------------------------
(* Bounds and sampled input values *)

MaxTasks == 3
MaxNodes == 2
MaxPool == 2
MaxRounds == 3
MaxItems == 3
MaxCapacity == 3

TokenVals == {0, 1, 2}
SpeedVals == {1, 2}
UptimeVals == {0, 1, 2}

\* Values the specification calls invalid input (negative), and speed 0.
BadTokenVals == {-1}
BadSpeedVals == {-1, 0}
BadUptimeVals == {-1}

\* Times are kept in units of 1/TimeScale second: the least common multiple of
\* the speeds of the model.
TimeScale ==
    CHOOSE m \in 1..4 :
        /\ \A s \in SpeedVals : m % s = 0
        /\ \A k \in 1..(m - 1) : \E s \in SpeedVals : k % s # 0

CostVals == {0, 1, 2}
ValueVals == {1, 2}
SpeedVals_B == {1, 2}
UptimeVals_B == {1}

\* The best-fit instance of the specification: nodes of uptime 100 and 50 and
\* speed 1, tasks of cost 40
ExampleTokens == {40}
ExampleSpeeds == {1}
ExampleUptimes == {100, 50}

ItemCostVals == {0, 1, 2}
ItemValueVals == {1, 2, 3}

NodeNames == <<"nano1", "nano2", "nano3", "orin">>

\* Optional[...] of main.py: None is the empty sequence, a value v is <<v>>.
None == <<>>
Some(v) == <<v>>

SeqsUpTo(S, n) == UNION {[1..k -> S] : k \in 0..n}

Range(s) == {s[k] : k \in DOMAIN s}

RECURSIVE SumSeq(_)
SumSeq(s) == IF s = <<>> THEN 0 ELSE Head(s) + SumSeq(Tail(s))

----------------------------------------------------------------------------
(* src/main.py: the domain model *)

\* Task(id, tokens): the placement fields default to None.
Task(id, tokens) ==
    [id |-> id, tokens |-> tokens,
     assigned_node |-> None, start_time |-> None, end_time |-> None]

\* Node(name, speed, uptime): the schedule defaults to the empty list.  uptime
\* is kept in seconds; schedule holds the ids of the Task objects appended.
Node(name, speed, uptime) ==
    [name |-> name, speed |-> speed, uptime |-> uptime, schedule |-> <<>>]

\* The Task object with the given id (ids stand for object identity).
TaskOf(ts, id) == CHOOSE t \in Range(ts) : t.id = id

\* node.uptime in time units
Uptime(node) == node.uptime * TimeScale

\* task.tokens / node.speed in time units (speed # 0)
est_time(task, node) ==
    IF node.speed > 0
    THEN (task.tokens * TimeScale) \div node.speed
    ELSE -((task.tokens * TimeScale) \div (-node.speed))

\* A faulty variant of time_used: the start_time of the last task instead of its end_time.
time_used_LastStart(ts, node) ==
    IF node.schedule = <<>> THEN 0
    ELSE TaskOf(ts, node.schedule[Len(node.schedule)]).start_time[1]

\* Node.time_used: end_time of the last task of the schedule, 0 when empty
time_used(ts, node) ==
    IF node.schedule = <<>> THEN 0
    ELSE TaskOf(ts, node.schedule[Len(node.schedule)]).end_time[1]

\* Node.remaining_time
remaining_time(ts, node) == Uptime(node) - time_used(ts, node)

\* A faulty variant of SortRank: tasks of equal tokens come out in reverse
\* input order.
SortRank_TiesReversed(ts, j) ==
    1 + Cardinality({i \in DOMAIN ts : ts[i].tokens > ts[j].tokens})
      + Cardinality({i \in DOMAIN ts : i > j /\ ts[i].tokens = ts[j].tokens})

\* self.tasks.sort(key=lambda t: t.tokens, reverse=True): rank of the task at
\* position j after a stable sort in descending order of tokens.
SortRank(ts, j) ==
    1 + Cardinality({i \in DOMAIN ts : ts[i].tokens > ts[j].tokens})
      + Cardinality({i \in DOMAIN ts : i < j /\ ts[i].tokens = ts[j].tokens})

SortedByTokens(ts) ==
    [k \in DOMAIN ts |-> ts[CHOOSE j \in DOMAIN ts : SortRank(ts, j) = k]]

\* A faulty variant of Fits: the time already used on the node is forgotten.
Fits_IgnoringTimeUsed(ts, task, node) ==
    est_time(task, node) <= Uptime(node)

\* A faulty variant of Fits: a task that fills the node exactly is turned away.
Fits_Strict(ts, task, node) ==
    time_used(ts, node) + est_time(task, node) < Uptime(node)

\* if node.time_used() + est_time <= node.uptime
Fits(ts, task, node) ==
    time_used(ts, node) + est_time(task, node) <= Uptime(node)

\* remaining = node.uptime - (node.time_used() + est_time)
Leftover(ts, task, node) ==
    Uptime(node) - (time_used(ts, node) + est_time(task, node))

\* A faulty variant of BestNode: best_node starts as the first node instead of
\* None, so a task that fits nowhere lands there.
BestNode_DefaultFirst(ts, ns, task) ==
    LET cand == {n \in DOMAIN ns : est_time(task, ns[n]) + time_used(ts, ns[n]) <= Uptime(ns[n])}
    IN  IF cand = {} THEN (IF ns = <<>> THEN 0 ELSE 1)
        ELSE CHOOSE b \in cand :
                \A c \in cand :
                    \/ Uptime(ns[b]) - (time_used(ts, ns[b]) + est_time(task, ns[b]))
                         < Uptime(ns[c]) - (time_used(ts, ns[c]) + est_time(task, ns[c]))
                    \/ /\ Uptime(ns[b]) - (time_used(ts, ns[b]) + est_time(task, ns[b]))
                            = Uptime(ns[c]) - (time_used(ts, ns[c]) + est_time(task, ns[c]))
                       /\ b <= c

\* A faulty variant of BestNode: first fit, the first candidate in node order.
BestNode_FirstFit(ts, ns, task) ==
    LET cand == {n \in DOMAIN ns : time_used(ts, ns[n]) + est_time(task, ns[n]) <= Uptime(ns[n])}
    IN  IF cand = {} THEN 0 ELSE CHOOSE b \in cand : \A c \in cand : b <= c

\* The inner loop over self.nodes: the index of best_node, 0 for None.  The
\* strict test `remaining < best_fit_time` keeps the first node of the least
\* leftover.
BestNode(ts, ns, task) ==
    LET cand == {n \in DOMAIN ns : Fits(ts, task, ns[n])}
    IN  IF cand = {} THEN 0
        ELSE CHOOSE b \in cand :
                \A c \in cand :
                    \/ Leftover(ts, task, ns[b]) < Leftover(ts, task, ns[c])
                    \/ /\ Leftover(ts, task, ns[b]) = Leftover(ts, task, ns[c])
                       /\ b <= c

\* A faulty variant of Placed: assigned_node is not written.
Placed_NoAssignedNode(ts, task, node) ==
    [task EXCEPT
        !.start_time = Some(time_used(ts, node)),
        !.end_time = Some(time_used(ts, node) + est_time(task, node))]

\* A faulty variant of DivisionRaises: the best node is taken with min() over the
\* candidates, which raises on an empty sequence.
DivisionRaises_OrNoNodes(ns) ==
    ns = <<>> \/ \E n \in DOMAIN ns : ns[n].speed = 0

\* est_time = task.tokens / node.speed raises ZeroDivisionError for some node
DivisionRaises(ns) == \E n \in DOMAIN ns : ns[n].speed = 0

\* The task as written by lines 145-148 when placed on node
Placed(ts, task, node) ==
    [task EXCEPT
        !.start_time = Some(time_used(ts, node)),
        !.end_time = Some(time_used(ts, node) + est_time(task, node)),
        !.assigned_node = Some(node.name)]

----------------------------------------------------------------------------
(* src/main.py: MyGreedyScheduler *)

\* Scheduler.__init__ on the caller's nodes and tasks, drawn from the given
\* values; task ids and node names are unique.
InitBestFit(tokens, speeds, uptimes) ==
    /\ prog = "bestfit"
    /\ pc = "sort"
    /\ \E toks \in SeqsUpTo(tokens, MaxTasks) :
          tasks = [k \in DOMAIN toks |-> Task(k, toks[k])]
    /\ \E sp \in SeqsUpTo(speeds \X uptimes, MaxNodes) :
          nodes = [k \in DOMAIN sp |-> Node(NodeNames[k], sp[k][1], sp[k][2])]
    /\ tasks0 = tasks
    /\ nodes0 = nodes
    /\ idx = 1
    /\ tasks_B = <<>>
    /\ nodes_B = <<>>
    /\ node_historical_runtime = <<>>
    /\ schedule = <<>>
    /\ node_usage = <<>>
    /\ remaining_tasks = <<>>
    /\ unscheduled = <<>>
    /\ round = 0
    /\ ledger0 = <<>>
    /\ items = <<>>
    /\ capacity = 0
    /\ selected = <<>>

\* line 130: the in-place sort of self.tasks
RunSort ==
    /\ prog = "bestfit"
    /\ pc = "sort"
    /\ tasks' = SortedByTokens(tasks)
    /\ pc' = "loop"
    /\ UNCHANGED <<prog, nodes, tasks0, nodes0, idx>>
    /\ UNCHANGED pbVars
    /\ UNCHANGED ksVars

\* lines 132-149: one iteration of `for task in self.tasks`.  A node of speed 0
\* makes task.tokens / node.speed raise ZeroDivisionError in the inner loop,
\* before anything is written.
RunTask ==
    /\ prog = "bestfit"
    /\ pc = "loop"
    /\ idx <= Len(tasks)
    /\ IF DivisionRaises(nodes)
       THEN /\ pc' = "raised"
            /\ UNCHANGED <<tasks, nodes, idx>>
       ELSE LET task == tasks[idx]
                b == BestNode(tasks, nodes, task)
            IN  /\ pc' = pc
                /\ idx' = idx + 1
                /\ IF b = 0
                   THEN UNCHANGED <<tasks, nodes>>
                   ELSE /\ tasks' = [tasks EXCEPT ![idx] = Placed(tasks, task, nodes[b])]
                        /\ nodes' = [nodes EXCEPT ![b].schedule = Append(@, task.id)]
    /\ UNCHANGED <<prog, tasks0, nodes0>>
    /\ UNCHANGED pbVars
    /\ UNCHANGED ksVars

\* the end of the for loop: run returns
RunReturn ==
    /\ prog = "bestfit"
    /\ pc = "loop"
    /\ idx > Len(tasks)
    /\ pc' = "done"
    /\ UNCHANGED <<prog, tasks, nodes, tasks0, nodes0, idx>>
    /\ UNCHANGED pbVars
    /\ UNCHANGED ksVars

----------------------------------------------------------------------------
(* src/napsack.py: the capacity-proportional allocator *)

\* A task tuple (task_id, cost, value); t[1] of the code is the cost.
TaskTuple(id, cost, value) == <<id, cost, value>>
Cost(t) == t[2]

\* The keys of a dict of nodes_B, in insertion order
Keys(ns) == [k \in DOMAIN ns |-> ns[k].name]

\* node_capacities[node] = info["speed"] * info["uptime"]
node_capacities(ns) ==
    [name \in Range(Keys(ns)) |->
        LET info == CHOOSE n \in Range(ns) : n.name = name
        IN  info.speed * info.uptime]

\* The sort key (node_usage[n] + node_historical_runtime[n]) / node_capacities[n]
\* of node a is less than that of node b; the quotients are compared by cross
\* multiplication (capacities are not 0 here).
Sgn(x) == IF x < 0 THEN -1 ELSE 1
Abs(x) == IF x < 0 THEN -x ELSE x

\* A faulty variant of KeyLess: the historical runtime is left out of the sort key.
KeyLess_NoHistory(caps, usage, hist, a, b) ==
    usage[a] * Sgn(caps[a]) * Abs(caps[b]) < usage[b] * Sgn(caps[b]) * Abs(caps[a])

KeyLess(caps, usage, hist, a, b) ==
    (usage[a] + hist[a]) * Sgn(caps[a]) * Abs(caps[b])
        < (usage[b] + hist[b]) * Sgn(caps[b]) * Abs(caps[a])

\* node_list = sorted(nodes.keys(), key=...): stable, ascending
NodeRank(ns, usage, hist, j) ==
    LET caps == node_capacities(ns)
        ks == Keys(ns)
    IN  1 + Cardinality({i \in DOMAIN ks : KeyLess(caps, usage, hist, ks[i], ks[j])})
          + Cardinality({i \in DOMAIN ks :
                /\ i < j
                /\ ~KeyLess(caps, usage, hist, ks[i], ks[j])
                /\ ~KeyLess(caps, usage, hist, ks[j], ks[i])})

node_list(ns, usage, hist) ==
    LET ks == Keys(ns)
    IN  [k \in DOMAIN ks |->
            ks[CHOOSE j \in DOMAIN ks : NodeRank(ns, usage, hist, j) = k]]

\* remaining_capacity = node_capacities[node] - node_usage[node]
remaining_capacity(ns, usage, node) == node_capacities(ns)[node] - usage[node]

\* A faulty variant of fitting_tasks: the pool is not filtered by the remaining capacity.
fitting_tasks_Unfiltered(pool, cap) == pool

\* fitting_tasks = [t for t in remaining_tasks if t[1] <= remaining_capacity]
fitting_tasks(pool, cap) == SelectSeq(pool, LAMBDA t : Cost(t) <= cap)

\* A faulty variant of Accepts: only the head of the pool is tried on the node.
Accepts_HeadOnly(ns, usage, pool, node) ==
    /\ remaining_capacity(ns, usage, node) > 0
    /\ pool # <<>>
    /\ Cost(Head(pool)) <= remaining_capacity(ns, usage, node)

\* The for loop over node_list: a node is passed over when it is full or no
\* pooled task fits; the position in node_list of the node that takes a task,
\* 0 when the loop ends with assigned = False.
Accepts(ns, usage, pool, node) ==
    /\ remaining_capacity(ns, usage, node) > 0
    /\ fitting_tasks(pool, remaining_capacity(ns, usage, node)) # <<>>

\* A faulty variant of ChosenNode: the last node of node_list that can take a
\* task is chosen, not the first.
ChosenNode_Last(ns, usage, hist, pool) ==
    LET nl == node_list(ns, usage, hist)
        ok == {k \in DOMAIN nl : Accepts(ns, usage, pool, nl[k])}
    IN  IF ok = {} THEN 0 ELSE CHOOSE k \in ok : \A m \in ok : k >= m

ChosenNode(ns, usage, hist, pool) ==
    LET nl == node_list(ns, usage, hist)
        ok == {k \in DOMAIN nl : Accepts(ns, usage, pool, nl[k])}
    IN  IF ok = {} THEN 0 ELSE CHOOSE k \in ok : \A m \in ok : k <= m

\* best_task = fitting_tasks[0]
best_task(ns, usage, pool, node) ==
    Head(fitting_tasks(pool, remaining_capacity(ns, usage, node)))

\* A faulty variant of Remove: the head of the pool is dropped (pop(0)), whatever was assigned.
Remove_PopFirst(pool, t) == Tail(pool)

\* remaining_tasks.remove(best_task): drops the first element equal to it
RECURSIVE Remove(_, _)
Remove(pool, t) ==
    IF pool = <<>> THEN <<>>
    ELSE IF Head(pool) = t THEN Tail(pool)
    ELSE <<Head(pool)>> \o Remove(Tail(pool), t)

\* A faulty variant of UpdatedRuntime: `=` instead of `+=`.
UpdatedRuntime_Overwrite(hist, usage) == [n \in DOMAIN hist |-> usage[n]]

\* node_historical_runtime[node] += node_usage[node], for every node
UpdatedRuntime(hist, usage) == [n \in DOMAIN hist |-> hist[n] + usage[n]]

\* lines 9-45: the inputs and the initial state of a round.  Task ids and node
\* names are unique; the ledger starts at 0 as in lines 32-37.
InitPolicyB(costs, speeds, uptimes) ==
    /\ prog = "policyB"
    /\ pc = "loop"
    /\ \E cv \in SeqsUpTo(costs \X ValueVals, MaxPool) :
          tasks_B = [k \in DOMAIN cv |-> TaskTuple(k, cv[k][1], cv[k][2])]
    /\ \E sp \in SeqsUpTo(speeds \X uptimes, MaxNodes) :
          nodes_B = [k \in DOMAIN sp |->
                        [name |-> NodeNames[k], speed |-> sp[k][1], uptime |-> sp[k][2]]]
    /\ node_historical_runtime = [n \in Range(Keys(nodes_B)) |-> 0]
    /\ schedule = [n \in Range(Keys(nodes_B)) |-> <<>>]
    /\ node_usage = [n \in Range(Keys(nodes_B)) |-> 0]
    /\ remaining_tasks = tasks_B
    /\ unscheduled = <<>>
    /\ round = 1
    /\ ledger0 = node_historical_runtime
    /\ tasks = <<>>
    /\ nodes = <<>>
    /\ tasks0 = <<>>
    /\ nodes0 = <<>>
    /\ idx = 0
    /\ items = <<>>
    /\ capacity = 0
    /\ selected = <<>>

\* lines 55-93: one iteration of `while remaining_tasks`.  With a node of
\* capacity 0 the sort key divides by zero and sorted() raises.
WhileStep ==
    /\ prog = "policyB"
    /\ pc = "loop"
    /\ IF remaining_tasks = <<>>
       THEN /\ pc' = "update"
            /\ UNCHANGED <<schedule, node_usage, remaining_tasks>>
       ELSE IF \E n \in DOMAIN node_usage : node_capacities(nodes_B)[n] = 0
       THEN /\ pc' = "raised"
            /\ UNCHANGED <<schedule, node_usage, remaining_tasks>>
       ELSE LET k == ChosenNode(nodes_B, node_usage, node_historical_runtime,
                                remaining_tasks)
            IN  IF k = 0
                THEN /\ pc' = "update"
                     /\ UNCHANGED <<schedule, node_usage, remaining_tasks>>
                ELSE LET node == node_list(nodes_B, node_usage,
                                           node_historical_runtime)[k]
                         t == best_task(nodes_B, node_usage, remaining_tasks, node)
                     IN  /\ schedule' = [schedule EXCEPT ![node] = Append(@, t)]
                         /\ node_usage' = [node_usage EXCEPT ![node] = @ + Cost(t)]
                         /\ remaining_tasks' = Remove(remaining_tasks, t)
                         /\ pc' = pc
    /\ UNCHANGED <<prog, tasks_B, nodes_B, node_historical_runtime, unscheduled,
                   round, ledger0>>
    /\ UNCHANGED bfVars
    /\ UNCHANGED ksVars

\* lines 95-99: unscheduled = remaining_tasks, then the historical runtime update
UpdateHistory ==
    /\ prog = "policyB"
    /\ pc = "update"
    /\ unscheduled' = remaining_tasks
    /\ node_historical_runtime' = UpdatedRuntime(node_historical_runtime, node_usage)
    /\ pc' = "done"
    /\ UNCHANGED <<prog, tasks_B, nodes_B, schedule, node_usage, remaining_tasks,
                   round, ledger0>>
    /\ UNCHANGED bfVars
    /\ UNCHANGED ksVars

\* The next round: the script runs again on the same tasks and nodes, with
\* node_historical_runtime (lines 30-37) loaded as the previous round left it
\* and lines 43-45 run afresh.
NextRound ==
    /\ prog = "policyB"
    /\ pc = "done"
    /\ round < MaxRounds
    /\ round' = round + 1
    /\ ledger0' = node_historical_runtime
    /\ schedule' = [n \in DOMAIN schedule |-> <<>>]
    /\ node_usage' = [n \in DOMAIN node_usage |-> 0]
    /\ remaining_tasks' = tasks_B
    /\ unscheduled' = <<>>
    /\ pc' = "loop"
    /\ UNCHANGED <<prog, tasks_B, nodes_B, node_historical_runtime>>
    /\ UNCHANGED bfVars
    /\ UNCHANGED ksVars

----------------------------------------------------------------------------
(* Specifications *)

NextBestFit ==
    \/ RunSort
    \/ RunTask
    \/ RunReturn

NextPolicyB ==
    \/ WhileStep
    \/ UpdateHistory
    \/ NextRound

\* Valid input: non-negative tokens and costs, positive speeds, non-negative
\* uptimes (positive capacities for the allocator).
InitBF ==
    \/ InitBestFit(TokenVals, SpeedVals, UptimeVals)
    \/ InitBestFit(ExampleTokens, ExampleSpeeds, ExampleUptimes)
InitPB == InitPolicyB(CostVals, SpeedVals_B, UptimeVals_B)

\* The best-fit scheduler on valid input
SpecBF == InitBF /\ [][NextBestFit]_vars

\* The allocator on valid input, round after round
SpecPB == InitPB /\ [][NextPolicyB]_vars

\* Either program on valid input
Init == InitBF \/ InitPB
Next == NextBestFit \/ NextPolicyB
Spec == Init /\ [][Next]_vars

\* Either program on any input: also the values the specification calls
\* invalid, and zero speeds and uptimes.
InitAny ==
    \/ InitBestFit(TokenVals \cup BadTokenVals, SpeedVals \cup BadSpeedVals,
                   UptimeVals \cup BadUptimeVals)
    \/ InitPolicyB(CostVals \cup BadTokenVals, SpeedVals_B \cup BadSpeedVals,
                   UptimeVals_B \cup BadUptimeVals \cup {0})

SpecAny == InitAny /\ [][Next]_vars

----------------------------------------------------------------------------
(* Properties of the best-fit scheduler (src/main.py) *)

\* The tasks of a node's schedule, in placement order
ScheduledTasks(node) == [k \in DOMAIN node.schedule |-> TaskOf(tasks, node.schedule[k])]

\* The number of positions of node n's schedule that hold the task id
Occurrences(n, id) == Cardinality({k \in DOMAIN nodes[n].schedule : nodes[n].schedule[k] = id})

IsPlaced(t) == t.assigned_node # None /\ t.start_time # None /\ t.end_time # None
IsUnplaced(t) == t.assigned_node = None /\ t.start_time = None /\ t.end_time = None

\* C1: best-fit scheduler, valid input: in every state of the run and for every
\* node, every task of its schedule has an end_time <= the node's uptime, so
\* time_used(node) <= uptime, and the durations tokens/speed of the tasks placed
\* on the node sum to at most the uptime.
C1_UptimeNeverExceeded ==
    prog = "bestfit" =>
        \A n \in DOMAIN nodes :
            LET st == ScheduledTasks(nodes[n])
            IN  /\ \A k \in DOMAIN st :
                      st[k].end_time # None /\ st[k].end_time[1] <= Uptime(nodes[n])
                /\ time_used(tasks, nodes[n]) <= Uptime(nodes[n])
                /\ SumSeq([k \in DOMAIN st |-> est_time(st[k], nodes[n])])
                      <= Uptime(nodes[n])

\* C1 witness: a run has ended with a node that holds two tasks of positive
\* duration and is filled exactly to its uptime, while a task was left out.
C1_Witness ==
    /\ prog = "bestfit"
    /\ pc = "done"
    /\ \E n \in DOMAIN nodes :
          /\ Len(nodes[n].schedule) >= 2
          /\ \A k \in DOMAIN nodes[n].schedule :
                TaskOf(tasks, nodes[n].schedule[k]).tokens > 0
          /\ time_used(tasks, nodes[n]) = Uptime(nodes[n])
    /\ \E k \in DOMAIN tasks : IsUnplaced(tasks[k])

\* C4: atomic placement: every task has its three placement fields set and
\* stands exactly once in the schedule of the node named by assigned_node and in
\* no other schedule, or has the three fields unset and stands in no schedule;
\* and a placed task keeps its fields and its place in every later step.
C4_PlacedOrNot ==
    prog = "bestfit" =>
        \A k \in DOMAIN tasks :
            LET t == tasks[k]
            IN  \/ /\ IsPlaced(t)
                   /\ \E n \in DOMAIN nodes :
                         /\ nodes[n].name = t.assigned_node[1]
                         /\ Occurrences(n, t.id) = 1
                         /\ \A m \in DOMAIN nodes : m # n => Occurrences(m, t.id) = 0
                \/ /\ IsUnplaced(t)
                   /\ \A m \in DOMAIN nodes : Occurrences(m, t.id) = 0

C4_PlacedForGood ==
    prog = "bestfit" =>
        /\ \A t \in Range(tasks) : IsPlaced(t) => t \in Range(tasks')
        /\ \A n \in DOMAIN nodes :
              /\ Len(nodes'[n].schedule) >= Len(nodes[n].schedule)
              /\ \A k \in DOMAIN nodes[n].schedule :
                    nodes'[n].schedule[k] = nodes[n].schedule[k]

C4_AtomicPlacement == []C4_PlacedOrNot /\ [][C4_PlacedForGood]_vars

\* C4 witness: at the end of a run one task is placed on the second node and
\* another task is left unplaced.
C4_Witness ==
    /\ prog = "bestfit"
    /\ pc = "done"
    /\ \E k \in DOMAIN tasks :
          IsPlaced(tasks[k]) /\ Len(nodes) >= 2 /\ tasks[k].assigned_node = Some(nodes[2].name)
    /\ \E k \in DOMAIN tasks : IsUnplaced(tasks[k])

\* C5: back-to-back timing, valid input: on every node the first task starts at
\* 0, every later task starts at the end_time of the task before it, and every
\* task has end_time = start_time + tokens/speed and start_time <= end_time.
C5_BackToBack ==
    prog = "bestfit" =>
        \A n \in DOMAIN nodes :
            LET st == ScheduledTasks(nodes[n])
            IN  \A k \in DOMAIN st :
                    /\ st[k].start_time # None /\ st[k].end_time # None
                    /\ st[k].start_time[1] = IF k = 1 THEN 0 ELSE st[k - 1].end_time[1]
                    /\ st[k].end_time[1] = st[k].start_time[1] + est_time(st[k], nodes[n])
                    /\ st[k].start_time[1] <= st[k].end_time[1]

\* C5 witness: a node of speed 2 holds three tasks, the second of which has a
\* positive duration.
C5_Witness ==
    /\ prog = "bestfit"
    /\ \E n \in DOMAIN nodes :
          /\ nodes[n].speed = 2
          /\ Len(nodes[n].schedule) = 3
          /\ LET t == TaskOf(tasks, nodes[n].schedule[2])
             IN  t.start_time[1] > 0 /\ t.end_time[1] > t.start_time[1]

----------------------------------------------------------------------------
(* Properties of the capacity-proportional allocator (src/napsack.py) *)

\* Sum of the costs of a list of task tuples
TotalCost(ts) == SumSeq([k \in DOMAIN ts |-> Cost(ts[k])])

\* The number of positions of a list that hold t
Count(ts, t) == Cardinality({k \in DOMAIN ts : ts[k] = t})

\* The number of times t stands in the schedules of all nodes together
CountPlaced(t) == SumSeq([k \in DOMAIN nodes_B |-> Count(schedule[nodes_B[k].name], t)])

\* C2: in every state of the assignment loop and for every node n,
\* node_usage[n] is the sum of the costs of the tasks of schedule[n] and
\* 0 <= node_usage[n] <= node_capacities[n] (valid input).
C2_UsageWithinCapacity ==
    prog = "policyB" =>
        \A n \in DOMAIN node_usage :
            /\ node_usage[n] = TotalCost(schedule[n])
            /\ 0 <= node_usage[n]
            /\ node_usage[n] <= node_capacities(nodes_B)[n]

\* C2 witness: in the loop of the second round, a node holding two tasks of
\* positive cost is filled exactly to its capacity.
C2_Witness ==
    /\ prog = "policyB"
    /\ pc = "loop"
    /\ round = 2
    /\ \E n \in DOMAIN node_usage :
          /\ Len(schedule[n]) = 2
          /\ \A k \in DOMAIN schedule[n] : Cost(schedule[n][k]) > 0
          /\ node_usage[n] = node_capacities(nodes_B)[n]

\* C3: conservation: in every state the schedules of all nodes together with
\* remaining_tasks hold every input task exactly once and nothing else, and at
\* the end unscheduled is the pool, so |placed| + |unscheduled| = |input|.
C3_Conservation ==
    prog = "policyB" =>
        /\ \A t \in Range(tasks_B) : CountPlaced(t) + Count(remaining_tasks, t) = 1
        /\ \A n \in DOMAIN schedule : Range(schedule[n]) \subseteq Range(tasks_B)
        /\ Range(remaining_tasks) \subseteq Range(tasks_B)
        /\ pc = "done" =>
              /\ unscheduled = remaining_tasks
              /\ SumSeq([k \in DOMAIN nodes_B |-> Len(schedule[nodes_B[k].name])])
                    + Len(unscheduled) = Len(tasks_B)

\* C3 witness: a round has ended with the second input task placed, at a
\* positive cost, and the first left unscheduled.
C3_Witness ==
    /\ prog = "policyB"
    /\ pc = "done"
    /\ Len(tasks_B) = 2
    /\ unscheduled = <<tasks_B[1]>>
    /\ Cost(tasks_B[2]) > 0
    /\ CountPlaced(tasks_B[2]) = 1

\* C6: the ledger is left alone by every assignment step and by the start of a
\* round; it changes only in the update after the loop, where every entry
\* becomes its value at round start plus the costs placed on the node in this
\* round; from round to round no entry decreases (valid input).
C6_LedgerInv ==
    prog = "policyB" =>
        /\ pc \in {"loop", "update"} => node_historical_runtime = ledger0
        /\ pc = "done" =>
              \A n \in DOMAIN node_historical_runtime :
                  node_historical_runtime[n] = ledger0[n] + TotalCost(schedule[n])

C6_LedgerStep ==
    prog = "policyB" =>
        /\ pc # "update" => node_historical_runtime' = node_historical_runtime
        /\ pc = "update" =>
              /\ pc' = "done"
              /\ node_historical_runtime' =
                    [n \in DOMAIN node_historical_runtime |->
                        node_historical_runtime[n] + TotalCost(schedule[n])]
        /\ pc = "done" => ledger0' = node_historical_runtime
        /\ \A n \in DOMAIN node_historical_runtime :
              node_historical_runtime'[n] >= node_historical_runtime[n]

C6_LedgerUpdate == []C6_LedgerInv /\ [][C6_LedgerStep]_vars

\* C6 witness: the second round has ended; a node's entry was positive at the
\* start of the round and has grown in it.
C6_Witness ==
    /\ prog = "policyB"
    /\ pc = "done"
    /\ round = 2
    /\ \E n \in DOMAIN node_historical_runtime :
          ledger0[n] > 0 /\ node_historical_runtime[n] > ledger0[n]

\* The largest cost of an input task (0 without tasks), the least capacity
MaxTaskCost ==
    IF tasks_B = <<>> THEN 0
    ELSE CHOOSE c \in {Cost(t) : t \in Range(tasks_B)} :
            \A t \in Range(tasks_B) : Cost(t) <= c

MinCapacity ==
    LET caps == node_capacities(nodes_B)
    IN  CHOOSE c \in {caps[n] : n \in DOMAIN caps} : \A n \in DOMAIN caps : c <= caps[n]

\* For all nodes a, b: ledger[a]/capacity[a] - ledger[b]/capacity[b] is at most
\* MaxTaskCost / MinCapacity, the ratio one assignment can add to a node
\* (positive capacities; compared by cross multiplication).
SpreadWithinOneTask ==
    LET caps == node_capacities(nodes_B)
        h == node_historical_runtime
    IN  \A a, b \in DOMAIN h :
            (h[a] * caps[b] - h[b] * caps[a]) * MinCapacity
                <= MaxTaskCost * caps[a] * caps[b]

\* Every node has room for every pooled task throughout a round: the costs of
\* all tasks of a round together are at most the least capacity.
RoomOnEveryNode == nodes_B # <<>> /\ TotalCost(tasks_B) <= MinCapacity

\* C7 as stated: over the rounds, on the same tasks and nodes, the difference
\* between the largest and the smallest ledger[n]/capacity[n] stays within a
\* bound that does not depend on the number of rounds: here the ratio of one
\* assignment, MaxTaskCost / MinCapacity.
C7_BoundedSpread == prog = "policyB" => SpreadWithinOneTask

\* C7 amended: when the costs of a round's tasks together do not exceed the
\* least node capacity (so that no node is ever passed over for lack of room),
\* the difference between the largest and the smallest ledger[n]/capacity[n]
\* never exceeds MaxTaskCost / MinCapacity, whatever the number of rounds.
C7_BoundedSpreadWithRoom ==
    (prog = "policyB" /\ RoomOnEveryNode) => SpreadWithinOneTask

\* C7 witness: the last round has ended on two nodes of different capacity
\* with room for all tasks; both ledger entries are positive and differ.
C7_Witness ==
    /\ prog = "policyB"
    /\ pc = "done"
    /\ round = MaxRounds
    /\ RoomOnEveryNode
    /\ Len(nodes_B) = 2
    /\ node_capacities(nodes_B)[nodes_B[1].name] # node_capacities(nodes_B)[nodes_B[2].name]
    /\ node_historical_runtime[nodes_B[1].name] > 0
    /\ node_historical_runtime[nodes_B[2].name] > 0
    /\ node_historical_runtime[nodes_B[1].name] # node_historical_runtime[nodes_B[2].name]

----------------------------------------------------------------------------
(* Properties of both programs *)

\* The input holds a negative task cost, or a negative speed, uptime or capacity
InvalidInput ==
    \/ /\ prog = "bestfit"
       /\ \/ \E t \in Range(tasks0) : t.tokens < 0
          \/ \E n \in Range(nodes0) : n.speed < 0 \/ n.uptime < 0
    \/ /\ prog = "policyB"
       /\ \/ \E t \in Range(tasks_B) : Cost(t) < 0
          \/ \E n \in Range(nodes_B) : n.speed < 0 \/ n.uptime < 0 \/ n.speed * n.uptime < 0

\* C8: a call with invalid input is rejected before any side effect: it never
\* runs to its normal end, every task's placement fields stay unset, and every
\* node's schedule, usage and ledger entry stay as they were.
C8_InvalidInputRejected ==
    InvalidInput =>
        /\ pc # "done"
        /\ prog = "bestfit" =>
              /\ \A t \in Range(tasks) : IsUnplaced(t)
              /\ \A n \in DOMAIN nodes : nodes[n].schedule = <<>>
        /\ prog = "policyB" =>
              /\ \A n \in DOMAIN schedule : schedule[n] = <<>> /\ node_usage[n] = 0
              /\ node_historical_runtime = ledger0

\* C9: frame of the best-fit scheduler: the caller's task sequence holds the
\* same tasks in the same order as at construction, with the same tokens; the
\* nodes keep name, speed and uptime; an unplaced task is as it was.
C9_FrameTasks ==
    /\ [k \in DOMAIN tasks |-> tasks[k].id] = [k \in DOMAIN tasks0 |-> tasks0[k].id]
    /\ \A t \in Range(tasks) : t.tokens = TaskOf(tasks0, t.id).tokens
    /\ \A t \in Range(tasks) : IsUnplaced(t) => t = TaskOf(tasks0, t.id)

C9_FrameNodes ==
    /\ Len(nodes) = Len(nodes0)
    /\ \A n \in DOMAIN nodes :
          /\ nodes[n].name = nodes0[n].name
          /\ nodes[n].speed = nodes0[n].speed
          /\ nodes[n].uptime = nodes0[n].uptime

C9_Frame == prog = "bestfit" => C9_FrameTasks /\ C9_FrameNodes

\* The part of C9 that the in-place sort leaves standing: the caller's sequence
\* holds the same tasks, each once, in some order.
C9_FrameUpToOrder ==
    prog = "bestfit" =>
        /\ Len(tasks) = Len(tasks0)
        /\ {t.id : t \in Range(tasks)} = {t.id : t \in Range(tasks0)}
        /\ \A t \in Range(tasks) : t.tokens = TaskOf(tasks0, t.id).tokens
        /\ \A t \in Range(tasks) : IsUnplaced(t) => t = TaskOf(tasks0, t.id)
        /\ C9_FrameNodes

----------------------------------------------------------------------------
(* The two runs as functions of their input, built from the same steps *)

\* main.py lines 132-149 from position i on: the tasks and nodes at the end of
\* the for loop (no node of speed 0).
RECURSIVE RunLoop(_, _, _)
RunLoop(ts, ns, i) ==
    IF i > Len(ts) THEN [tasks |-> ts, nodes |-> ns]
    ELSE LET task == ts[i]
             b == BestNode(ts, ns, task)
         IN  IF b = 0 THEN RunLoop(ts, ns, i + 1)
             ELSE RunLoop([ts EXCEPT ![i] = Placed(ts, task, ns[b])],
                          [ns EXCEPT ![b].schedule = Append(@, task.id)], i + 1)

\* MyGreedyScheduler(ns, ts).run()
RunResult(ts, ns) == RunLoop(SortedByTokens(ts), ns, 1)

\* napsack.py lines 55-93 from a state of the loop on: schedule, node_usage and
\* remaining_tasks at the end of the while loop (no node of capacity 0).
RECURSIVE AssignLoop(_, _, _, _, _)
AssignLoop(ns, hist, pool, sched, usage) ==
    LET k == IF pool = <<>> THEN 0 ELSE ChosenNode(ns, usage, hist, pool)
    IN  IF k = 0
        THEN [schedule |-> sched, node_usage |-> usage, remaining_tasks |-> pool]
        ELSE LET node == node_list(ns, usage, hist)[k]
                 t == best_task(ns, usage, pool, node)
             IN  AssignLoop(ns, hist, Remove(pool, t),
                            [sched EXCEPT ![node] = Append(@, t)],
                            [usage EXCEPT ![node] = @ + Cost(t)])

\* A round of the allocator on tasks ts and nodes ns from the ledger hist
RoundResult(ts, ns, hist) ==
    AssignLoop(ns, hist, ts,
               [n \in Range(Keys(ns)) |-> <<>>], [n \in Range(Keys(ns)) |-> 0])

\* A list of Task objects without the one of the given id; a list of task
\* tuples without the tuple u
WithoutTask(ts, id) == SelectSeq(ts, LAMBDA t : t.id # id)
WithoutTuple(ts, u) == SelectSeq(ts, LAMBDA t : t # u)

\* The task cannot run on any node: its duration exceeds every node's uptime
\* (best-fit), its cost exceeds every node's capacity (allocator).
TooLongForAll(u) == \A n \in Range(nodes0) : est_time(u, n) > Uptime(n)
TooBigForAll(u) ==
    \A n \in DOMAIN node_usage : Cost(u) > node_capacities(nodes_B)[n]

\* C11: a task that cannot run on any node never aborts a run: nothing is
\* raised, the run goes on to its end, the task ends unplaced / in the pool, and
\* every other task ends on the same node, at the same position and times, as
\* in a run on the same input without that task.
C11_BestFitPart ==
    prog = "bestfit" =>
        \A u \in Range(tasks0) :
            TooLongForAll(u) =>
                /\ pc # "raised"
                /\ pc \in {"sort", "loop", "done"}
                /\ IsUnplaced(TaskOf(tasks, u.id))
                /\ pc = "done" =>
                      LET r == RunResult(WithoutTask(tasks0, u.id), nodes0)
                      IN  /\ WithoutTask(tasks, u.id) = r.tasks
                          /\ nodes = r.nodes

C11_AllocatorPart ==
    prog = "policyB" =>
        \A u \in Range(tasks_B) :
            TooBigForAll(u) =>
                /\ pc # "raised"
                /\ pc \in {"loop", "update", "done"}
                /\ Count(remaining_tasks, u) = 1
                /\ pc \in {"update", "done"} =>
                      LET r == RoundResult(WithoutTuple(tasks_B, u), nodes_B, ledger0)
                      IN  /\ schedule = r.schedule
                          /\ node_usage = r.node_usage
                          /\ WithoutTuple(remaining_tasks, u) = r.remaining_tasks
                /\ pc = "done" => Count(unscheduled, u) = 1

C11_UnschedulableIsSkipped == C11_BestFitPart /\ C11_AllocatorPart

\* C11 witness: a best-fit run has ended; the caller's second task of three is
\* too long for both nodes and unplaced, the other two are placed.
C11_Witness ==
    /\ prog = "bestfit"
    /\ pc = "done"
    /\ Len(tasks0) = 3
    /\ Len(nodes0) = 2
    /\ TooLongForAll(tasks0[2])
    /\ IsUnplaced(TaskOf(tasks, 2))
    /\ IsPlaced(TaskOf(tasks, 1))
    /\ IsPlaced(TaskOf(tasks, 3))
    /\ TaskOf(tasks, 1).tokens > 0

----------------------------------------------------------------------------
(* The knapsack selector, from section 4.1 of the specification *)

ItemValue(t) == t[3]

Max(a, b) == IF a >= b THEN a ELSE b

\* A faulty variant of ItemFits: an item that fills the capacity exactly is left out.
ItemFits_Strict(c, w) == c < w

\* `cost_i <= w` of the recurrence
ItemFits(c, w) == c <= w

\* dp[i][w] = max(dp[i-1][w], value_i + dp[i-1][w - cost_i]) when cost_i <= w,
\* else dp[i-1][w]; dp[0][w] = 0
RECURSIVE dp(_, _, _)
dp(its, i, w) ==
    IF i = 0 THEN 0
    ELSE IF ItemFits(Cost(its[i]), w)
         THEN Max(dp(its, i - 1, w), ItemValue(its[i]) + dp(its, i - 1, w - Cost(its[i])))
         ELSE dp(its, i - 1, w)

\* The reconstruction: from (n, capacity) backward, item i is appended whenever
\* dp[i][w] # dp[i-1][w], and w is decremented by its cost.
RECURSIVE Backtrack(_, _, _)
Backtrack(its, i, w) ==
    IF i = 0 THEN <<>>
    ELSE IF dp(its, i, w) # dp(its, i - 1, w)
         THEN <<its[i]>> \o Backtrack(its, i - 1, w - Cost(its[i]))
         ELSE Backtrack(its, i - 1, w)

\* select(items, capacity)
select(its, cap) == Backtrack(its, Len(its), cap)

\* The instance of the specification: costs [2,3,4,5], values [3,4,5,6], capacity 5
ExampleItems == <<<<1, 2, 3>>, <<2, 3, 4>>, <<3, 4, 5>>, <<4, 5, 6>>>>
ExampleCapacity == 5

\* A call select(items, capacity) on non-negative integer costs and capacity
InitKS ==
    /\ prog = "knapsack"
    /\ pc = "call"
    /\ \/ /\ \E cv \in SeqsUpTo(ItemCostVals \X ItemValueVals, MaxItems) :
                items = [k \in DOMAIN cv |-> <<k, cv[k][1], cv[k][2]>>]
          /\ capacity \in 0..MaxCapacity
       \/ /\ items = ExampleItems
          /\ capacity = ExampleCapacity
    /\ selected = <<>>
    /\ tasks = <<>>
    /\ nodes = <<>>
    /\ tasks0 = <<>>
    /\ nodes0 = <<>>
    /\ idx = 0
    /\ tasks_B = <<>>
    /\ nodes_B = <<>>
    /\ node_historical_runtime = <<>>
    /\ schedule = <<>>
    /\ node_usage = <<>>
    /\ remaining_tasks = <<>>
    /\ unscheduled = <<>>
    /\ round = 0
    /\ ledger0 = <<>>

Select ==
    /\ prog = "knapsack"
    /\ pc = "call"
    /\ selected' = select(items, capacity)
    /\ pc' = "done"
    /\ UNCHANGED <<prog, items, capacity>>
    /\ UNCHANGED bfVars
    /\ UNCHANGED pbVars

SpecKS == InitKS /\ [][Select]_vars

\* Sums over the items at a set of positions
RECURSIVE CostOf(_, _)
CostOf(its, S) ==
    IF S = {} THEN 0
    ELSE LET k == CHOOSE k \in S : TRUE IN Cost(its[k]) + CostOf(its, S \ {k})

RECURSIVE ValueOf(_, _)
ValueOf(its, S) ==
    IF S = {} THEN 0
    ELSE LET k == CHOOSE k \in S : TRUE IN ItemValue(its[k]) + ValueOf(its, S \ {k})

\* The positions of the items returned; every returned item is an input item
\* and none is returned twice
SelectedPositions == {k \in DOMAIN items : items[k] \in Range(selected)}

SelectedIsSubset ==
    /\ Range(selected) \subseteq Range(items)
    /\ Cardinality(SelectedPositions) = Len(selected)

\* The subset returned fits the capacity and no subset that fits has a larger value
SelectedIsOptimal ==
    /\ SelectedIsSubset
    /\ CostOf(items, SelectedPositions) <= capacity
    /\ \A S \in SUBSET DOMAIN items :
          CostOf(items, S) <= capacity =>
              ValueOf(items, S) <= ValueOf(items, SelectedPositions)

SelectedOnExample ==
    (items = ExampleItems /\ capacity = ExampleCapacity) =>
        /\ Range(selected) = {ExampleItems[1], ExampleItems[2]}
        /\ ValueOf(items, SelectedPositions) = 7

\* C12 as stated: the subset returned fits and is of maximal value; on the
\* example it is the items of cost 2 and 3; for an empty item list or capacity
\* 0 it is empty.
C12_SelectOptimalEmptyAtZero ==
    (prog = "knapsack" /\ pc = "done") =>
        /\ SelectedIsOptimal
        /\ SelectedOnExample
        /\ (items = <<>> \/ capacity = 0) => selected = <<>>

\* C12 amended: as stated, except that for capacity 0 the subset returned holds
\* only items of cost 0 (it is empty when every cost is positive).
C12_SelectOptimal ==
    (prog = "knapsack" /\ pc = "done") =>
        /\ SelectedIsOptimal
        /\ SelectedOnExample
        /\ items = <<>> => selected = <<>>
        /\ capacity = 0 =>
              /\ \A t \in Range(selected) : Cost(t) = 0
              /\ (\A t \in Range(items) : Cost(t) > 0) => selected = <<>>

\* C12 witness: the selector has returned two of three items, filling the
\* capacity exactly and leaving out an item that would fit alone.
C12_Witness ==
    /\ prog = "knapsack"
    /\ pc = "done"
    /\ Len(items) = 3
    /\ Len(selected) = 2
    /\ CostOf(items, SelectedPositions) = capacity
    /\ \E k \in DOMAIN items \ SelectedPositions : Cost(items[k]) <= capacity /\ Cost(items[k]) > 0

----------------------------------------------------------------------------
(* Further properties of the best-fit scheduler *)

\* The nodes on which the task at position idx fits, and what is left of the
\* uptime of node n with that task on it
Candidates ==
    {n \in DOMAIN nodes :
        time_used(tasks, nodes[n]) + est_time(tasks[idx], nodes[n]) <= Uptime(nodes[n])}

LeftoverOn(n) ==
    Uptime(nodes[n]) - (time_used(tasks, nodes[n]) + est_time(tasks[idx], nodes[n]))

\* C13: in the step that handles a task, the task is placed iff some node is a
\* candidate (time_used + tokens/speed <= uptime), and then on the candidate of
\* the least leftover time, the first of them in node order; without a
\* candidate nothing is written; either way the loop moves on to the next task
\* and no task handled before is touched again.
C13_Step ==
    (prog = "bestfit" /\ pc = "loop" /\ idx <= Len(tasks) /\ idx' # idx) =>
        /\ idx' = idx + 1
        /\ \A k \in 1..(idx - 1) : tasks'[k] = tasks[k]
        /\ \A k \in (idx + 1)..Len(tasks) : tasks'[k] = tasks[k]
        /\ IF Candidates = {}
           THEN tasks' = tasks /\ nodes' = nodes
           ELSE \E b \in Candidates :
                   /\ \A c \in Candidates : LeftoverOn(b) <= LeftoverOn(c)
                   /\ \A c \in Candidates : LeftoverOn(c) = LeftoverOn(b) => b <= c
                   /\ tasks'[idx].assigned_node = Some(nodes[b].name)
                   /\ nodes'[b].schedule = Append(nodes[b].schedule, tasks[idx].id)
                   /\ \A m \in DOMAIN nodes : m # b => nodes'[m] = nodes[m]

\* On the instance of the specification (uptimes 100 and 50, speed 1, one task
\* of cost 40) the task ends on the node of uptime 50.
C13_Example ==
    (/\ prog = "bestfit"
     /\ pc = "done"
     /\ Len(tasks0) = 1
     /\ tasks0[1].tokens = 40
     /\ Len(nodes0) = 2
     /\ nodes0[1].uptime = 100
     /\ nodes0[2].uptime = 50) =>
        /\ tasks[1].assigned_node = Some(nodes0[2].name)
        /\ remaining_time(tasks, nodes[2]) = 10 * TimeScale
        /\ nodes[1].schedule = <<>>

Before(a, b) ==
    \/ tasks0[a].tokens > tasks0[b].tokens
    \/ tasks0[a].tokens = tasks0[b].tokens /\ a < b

\* The identities of the tasks the loop has decided so far
Decided == IF pc = "sort" THEN {} ELSE {tasks[k].id : k \in 1..(idx - 1)}

\* From the sort on, self.tasks holds the input tasks in the order Before.
C14_ListOrdered ==
    (prog = "bestfit" /\ pc \in {"loop", "done"}) =>
        /\ Len(tasks) = Len(tasks0)
        /\ {tasks[k].id : k \in DOMAIN tasks} = DOMAIN tasks0
        /\ \A k \in DOMAIN tasks : tasks[k].tokens = tasks0[tasks[k].id].tokens
        /\ \A i, j \in DOMAIN tasks : i < j => Before(tasks[i].id, tasks[j].id)

\* Whatever is decided, everything before it in that order is decided too.
C14_DecidedInOrder ==
    prog = "bestfit" =>
        \A a \in Decided : \A b \in DOMAIN tasks0 : Before(b, a) => b \in Decided

\* A step decides exactly one task, the first in that order among the
\* undecided ones.
C14_DecideStep ==
    (prog = "bestfit" /\ Decided' # Decided) =>
        \E a \in DOMAIN tasks0 \ Decided :
            /\ Decided' = Decided \cup {a}
            /\ \A b \in DOMAIN tasks0 \ Decided : b # a => Before(a, b)

\* Every schedule lists its tasks in that order.
C14_SchedulesOrdered ==
    prog = "bestfit" =>
        \A n \in DOMAIN nodes : \A i, j \in DOMAIN nodes[n].schedule :
            i < j => Before(nodes[n].schedule[i], nodes[n].schedule[j])

\* C14: tasks are considered in descending order of cost, tasks of equal cost
\* in input order: a task is decided only after every task of strictly larger
\* cost, and every schedule is non-increasing in cost with equal costs in
\* input order.
C14_ProcessingOrder ==
    /\ []C14_ListOrdered
    /\ []C14_DecidedInOrder
    /\ [][C14_DecideStep]_vars
    /\ []C14_SchedulesOrdered

\* C14 witness: three tasks given in the order small, large, small with the
\* small ones equal have all been placed, two of equal cost on one node.
C14_Witness ==
    /\ prog = "bestfit"
    /\ pc = "done"
    /\ Len(tasks0) = 3
    /\ tasks0[1].tokens = tasks0[3].tokens
    /\ tasks0[2].tokens > tasks0[1].tokens
    /\ tasks # tasks0
    /\ \E n \in DOMAIN nodes : \E i, j \in DOMAIN nodes[n].schedule :
          i < j /\ nodes[n].schedule[i] = 1 /\ nodes[n].schedule[j] = 3

----------------------------------------------------------------------------
(* Further properties of the allocator *)

\* Node n of nodes_B, its capacity and its ratio compared with that of node m
\* (capacities are positive on valid input)
CapacityOf(n) == nodes_B[n].speed * nodes_B[n].uptime
LoadOf(n) == node_usage[nodes_B[n].name] + node_historical_runtime[nodes_B[n].name]
RatioLess(n, m) == LoadOf(n) * CapacityOf(m) < LoadOf(m) * CapacityOf(n)
RoomOf(n) == CapacityOf(n) - node_usage[nodes_B[n].name]

\* Node n has positive remaining capacity and some pooled task fits it.
CanAccept(n) ==
    /\ RoomOf(n) > 0
    /\ \E k \in DOMAIN remaining_tasks : remaining_tasks[k][2] <= RoomOf(n)

\* The nodes whose schedule grows in the step
Receivers == {n \in DOMAIN nodes_B : schedule'[nodes_B[n].name] # schedule[nodes_B[n].name]}

\* C15: every iteration of the loop that finds a node able to accept a pooled
\* task makes exactly one assignment, to a node that can accept, has the
\* lowest ratio (usage + history) / capacity among those that can, and is the
\* earliest of them in node order among equal ratios; the ratios are those of
\* the state in which the assignment is made.
C15_Step ==
    (prog = "policyB" /\ pc = "loop" /\ remaining_tasks # <<>>) =>
        IF \E n \in DOMAIN nodes_B : CanAccept(n)
        THEN \E n \in DOMAIN nodes_B :
                /\ Receivers = {n}
                /\ CanAccept(n)
                /\ \A m \in DOMAIN nodes_B : CanAccept(m) => ~RatioLess(m, n)
                /\ \A m \in DOMAIN nodes_B :
                      (CanAccept(m) /\ ~RatioLess(n, m)) => n <= m
                /\ Len(schedule'[nodes_B[n].name]) = Len(schedule[nodes_B[n].name]) + 1
        ELSE Receivers = {}

C15_NodeChoice == [][C15_Step]_vars

\* C15 witness: in a later round the first assignment has gone to the second
\* node, the first node carrying history; the first node now has the lower
\* ratio and can accept a task.
C15_Witness ==
    /\ prog = "policyB"
    /\ pc = "loop"
    /\ Len(nodes_B) = 2
    /\ node_usage[nodes_B[2].name] > 0
    /\ node_usage[nodes_B[1].name] = 0
    /\ CanAccept(1)
    /\ RatioLess(1, 2)
    /\ node_historical_runtime[nodes_B[1].name] > 0

\* The task assigned last to node n in this round, and the room n had when it
\* took that task
LastOn(n) == schedule[nodes_B[n].name][Len(schedule[nodes_B[n].name])]
RoomBeforeLast(n) == RoomOf(n) + LastOn(n)[2]

\* C16: the task assigned to the chosen node is, among the pooled tasks that
\* fit the node, one of the highest value, whatever the input order of the
\* tasks.  The pool only shrinks within a round, so every task still pooled
\* was pooled when a node took its last task: none that fitted the node then
\* has a strictly higher value than the task taken.
C16_HighestValueFirst ==
    (prog = "policyB" /\ pc = "loop") =>
        \A n \in DOMAIN nodes_B :
            schedule[nodes_B[n].name] # <<>> =>
                \A k \in DOMAIN remaining_tasks :
                    remaining_tasks[k][2] <= RoomBeforeLast(n) =>
                        remaining_tasks[k][3] <= LastOn(n)[3]

\* Each pass of the while loop takes one task out of the pool and stays in the
\* loop, or leaves the loop with the pool as it is: the length of the pool
\* bounds the number of passes, and a pass is one walk over the finite node_list.
C17_PassStep ==
    (prog = "policyB" /\ pc = "loop") =>
        \/ pc' = "loop" /\ Len(remaining_tasks') = Len(remaining_tasks) - 1
        \/ pc' # "loop" /\ remaining_tasks' = remaining_tasks

\* After the loop the pool is empty or no node can accept any pooled task, and
\* what is reported unscheduled is that pool.
C17_Maximal ==
    (prog = "policyB" /\ pc \in {"update", "done"}) =>
        /\ \/ remaining_tasks = <<>>
           \/ \A k \in DOMAIN remaining_tasks : \A n \in DOMAIN nodes_B :
                 RoomOf(n) <= 0 \/ remaining_tasks[k][2] > RoomOf(n)
        /\ pc = "done" => unscheduled = remaining_tasks

\* C17: the assignment loop terminates, each pass removing one task from the
\* pool or ending the loop, and when it has ended the pool is empty or, for
\* every unscheduled task and every node, the node has no positive remaining
\* capacity or the task costs more than what remains of it.
C17_TerminatesMaximal ==
    /\ [][C17_PassStep]_vars
    /\ []C17_Maximal

\* C17 witness: a round has ended with a task placed, a task unscheduled, and
\* room left on a node.
C17_Witness ==
    /\ prog = "policyB"
    /\ pc = "done"
    /\ unscheduled # <<>>
    /\ \E n \in DOMAIN nodes_B : RoomOf(n) > 0 /\ schedule[nodes_B[n].name] # <<>>

----------------------------------------------------------------------------
(* What the best-fit scheduler leaves unplaced *)

\* When the run has ended, every unplaced task is too long for what is left
\* of every node.
C18_NothingPlaceable ==
    (prog = "bestfit" /\ pc = "done") =>
        \A k \in DOMAIN tasks :
            tasks[k].assigned_node = None =>
                \A n \in DOMAIN nodes :
                    time_used(tasks, nodes[n]) + est_time(tasks[k], nodes[n])
                        > Uptime(nodes[n])

\* time_used of a node never decreases.
C18_TimeUsedGrows ==
    prog = "bestfit" =>
        \A n \in DOMAIN nodes :
            time_used(tasks', nodes'[n]) >= time_used(tasks, nodes[n])

\* C18: with non-negative tokens and positive speeds, at the end of run every
\* unscheduled task fails to fit on every node, time_used(n) + tokens/speed(n)
\* > uptime(n); time_used of a node never decreases during the run.
C18_LeavesNothingPlaceable == []C18_NothingPlaceable /\ [][C18_TimeUsedGrows]_vars

\* C18 witness: the run has ended with a task unplaced that an empty node
\* would have taken, the node holding another task.
C18_Witness ==
    /\ prog = "bestfit"
    /\ pc = "done"
    /\ \E k \in DOMAIN tasks : \E n \in DOMAIN nodes :
          /\ tasks[k].assigned_node = None
          /\ est_time(tasks[k], nodes[n]) <= Uptime(nodes[n])
          /\ nodes[n].schedule # <<>>
          /\ time_used(tasks, nodes[n]) > 0

----------------------------------------------------------------------------
(* Nodes without a budget *)

\* The input has a non-empty task list, no negative number, and a node of
\* speed 0 or uptime 0.
ZeroBudgetInput ==
    \/ /\ prog = "bestfit"
       /\ tasks0 # <<>>
       /\ \A t \in Range(tasks0) : t.tokens >= 0
       /\ \A n \in Range(nodes0) : n.speed >= 0 /\ n.uptime >= 0
       /\ \E n \in Range(nodes0) : n.speed = 0 \/ n.uptime = 0
    \/ /\ prog = "policyB"
       /\ tasks_B # <<>>
       /\ \A t \in Range(tasks_B) : Cost(t) >= 0
       /\ \A n \in Range(nodes_B) : n.speed >= 0 /\ n.uptime >= 0
       /\ \E n \in Range(nodes_B) : n.speed = 0 \/ n.uptime = 0

\* C19: on such an input the run raises no error, and a node of speed 0 or
\* uptime 0 receives no task of positive cost.
C19_ZeroBudgetCompletes ==
    ZeroBudgetInput =>
        /\ pc # "raised"
        /\ prog = "bestfit" =>
              \A n \in DOMAIN nodes :
                  (nodes[n].speed = 0 \/ nodes[n].uptime = 0) =>
                      \A i \in DOMAIN nodes[n].schedule :
                          TaskOf(tasks, nodes[n].schedule[i]).tokens = 0
        /\ prog = "policyB" =>
              \A n \in DOMAIN nodes_B :
                  (nodes_B[n].speed = 0 \/ nodes_B[n].uptime = 0) =>
                      \A i \in DOMAIN schedule[nodes_B[n].name] :
                          schedule[nodes_B[n].name][i][2] = 0

====
